---------------------------- MODULE Spec2Model ----------------------------
(***************************************************************************)
(* State-machine model of spring/force.py (class SpringBox): the           *)
(* force-directed layout engine and its edge-weight dictionary helpers.    *)
(*                                                                         *)
(* Numbers.  Python floats are modelled as exact rationals <<n, d>> in     *)
(* lowest terms with d > 0.  Rounding, overflow to inf and underflow of    *)
(* IEEE doubles are outside the model.  S ** 0.5 is modelled only for the  *)
(* inputs whose square area S is the square of a rational, so that the     *)
(* root stays exact.                                                       *)
(*                                                                         *)
(* Units.  Forces are held in units of the Coulomb constant of force.py    *)
(* line 10 (one model unit of force is 8.9875*10^9), and so are masses     *)
(* and spring constants.  A model run with mass m, spring constants k is   *)
(* the program's run with mass Kc*m and spring constants Kc*k: positions,  *)
(* velocities and accelerations are the same numbers, forces are the       *)
(* program's divided by Kc.                                                *)
(***************************************************************************)
EXTENDS Integers, Sequences, FiniteSets, TLC

\* ------------------------------------------------------------------ bounds
MaxN == 3          \* most objects handed to the constructor
MaxIter == 2       \* largest iteration count R passed to move_to_equillibrium
MaxMagnitude == 16 \* an iteration is explored only from coordinates and velocities
                   \*   whose numerator and denominator are at most this, which
                   \*   keeps the exact arithmetic of the iteration within range
MaxNames == 3      \* object names the edge-weight dictionary is written with
MaxUpdates == 3    \* most update_ndict calls in a run of the dictionary

\* ------------------------------------------------------- exact arithmetic
Abs(n) == IF n < 0 THEN -n ELSE n

RECURSIVE GCD(_, _)
GCD(a, b) == IF b = 0 THEN a ELSE GCD(b, a % b)

\* the rational n/d (d > 0) in lowest terms
Norm(n, d) == IF n = 0 THEN <<0, 1>>
              ELSE LET g == GCD(Abs(n), d) IN <<n \div g, d \div g>>

Zero == <<0, 1>>
One == <<1, 1>>
Two == <<2, 1>>
Half == <<1, 2>>
MinusOne == <<-1, 1>>
RInt(n) == <<n, 1>>

\* sums, products and comparisons cancel common factors before multiplying
RAdd(a, b) == LET g == GCD(a[2], b[2])
              IN  Norm(a[1] * (b[2] \div g) + b[1] * (a[2] \div g),
                       (a[2] \div g) * b[2])
RNeg(a) == <<-a[1], a[2]>>
RSub(a, b) == RAdd(a, RNeg(b))
RMul(a, b) == LET g1 == GCD(Abs(a[1]), b[2])
                  g2 == GCD(Abs(b[1]), a[2])
              IN  IF a[1] = 0 \/ b[1] = 0 THEN <<0, 1>>
                  ELSE <<(a[1] \div g1) * (b[1] \div g2),
                         (a[2] \div g2) * (b[2] \div g1)>>
\* a / b for b # 0
RDiv(a, b) == IF b[1] > 0 THEN RMul(a, <<b[2], b[1]>>)
              ELSE RMul(a, <<-b[2], -b[1]>>)
RAbs(a) == <<Abs(a[1]), a[2]>>
RLess(a, b) == LET g == GCD(a[2], b[2])
               IN  a[1] * (b[2] \div g) < b[1] * (a[2] \div g)
RLeq(a, b) == ~RLess(b, a)

IsSquare(n) == \E r \in 0..n : r * r = n
ISqrt(n) == CHOOSE r \in 0..n : r * r = n
\* a >= 0 is the square of a rational
HasSqrt(a) == a[1] >= 0 /\ IsSquare(a[1]) /\ IsSquare(a[2])
RSqrt(a) == <<ISqrt(a[1]), ISqrt(a[2])>>

\* --------------------------------------------------------- edge weights
Names == 1..MaxNames           \* object names: object i is named i
Weights == {One, Two}          \* spring constants handed to update_ndict
None == <<>>                   \* Python's None

EmptyDict == [x \in {} |-> None]
\* d[k] = val on a dict
DictSet(d, k, val) == [x \in (DOMAIN d) \cup {k} |-> IF x = k THEN val ELSE d[x]]

\* SpringBox.kfn(ndict, u, v)
Kfn(nd, un, vn) ==
    IF un \notin DOMAIN nd \/ vn \notin DOMAIN nd[un]
    THEN None
    ELSE nd[un][vn]

\* update_ndict writing one direction only
UpdateNdictOneWay(nd, un, vn, w) ==
    LET nd1 == IF vn \notin DOMAIN nd THEN DictSet(nd, vn, EmptyDict) ELSE nd
    IN  DictSet(nd1, vn, DictSet(nd1[vn], un, w))

\* SpringBox.update_ndict(ndict, u, v, w)
UpdateNdict(nd, un, vn, w) ==
    LET nd1 == IF vn \notin DOMAIN nd THEN DictSet(nd, vn, EmptyDict) ELSE nd
        nd2 == DictSet(nd1, vn, DictSet(nd1[vn], un, w))
        nd3 == IF un \notin DOMAIN nd2 THEN DictSet(nd2, un, EmptyDict) ELSE nd2
    IN  DictSet(nd3, un, DictSet(nd3[un], vn, w))

\* ------------------------------------------------------------------ state
VARIABLES
    pc,         \* where the caller is: "setup", "ready", the next phase of
                \*   move_to_equillibrium, "done", "ctor_error", "error"
    err,        \* the exception that ended the run, "" when none
    ndict,      \* the caller's edge-weight dictionary (self.kfn looks it up)
    kres,       \* <<u, v, result>> of the caller's last SpringBox.kfn call
    lastw,      \* history: the w of the last update_ndict call per unordered pair
    nupd,       \* history: number of update_ndict calls made
    N,          \* len(self.objects)
    width, height, intDims,   \* canvas size; intDims: both are Python ints
    charge, mass, time_step,
    pos, force, acc, vel,     \* per object, each a pair <<x, y>>
    xypos,      \* per object <<o.xpos, o.ypos>>, set by scale_to_map
    iters,      \* the argument R of move_to_equillibrium
    x,          \* iterations of the loop completed
    log,        \* history: the phases executed by move_to_equillibrium, in order
    frep, fatt  \* history: frep[i][j] is what the last compute_repulsive_force
                \*   added to object i's force because of object j (fatt alike)

vars == <<pc, err, ndict, kres, lastw, nupd, N, width, height, intDims, charge, mass,
          time_step, pos, force, acc, vel, xypos, iters, x, log, frep, fatt>>

dictVars == <<ndict, lastw, nupd>>
engineVars == <<pc, err, N, width, height, intDims, charge, mass, time_step, pos,
                force, acc, vel, xypos, iters, x, log, frep, fatt>>
ctorVars == <<N, width, height, intDims, charge, mass, time_step>>
callVars == <<iters, x>>

Vec0 == <<Zero, Zero>>
Zeros(n) == [i \in 1..n |-> Vec0]
ZeroMatrix(n) == [i \in 1..n |-> [j \in 1..n |-> Vec0]]
UnorderedPairs == {{a, b} : a \in Names, b \in Names}

\* ------------------------------------------------------- constructor inputs
CanvasSizes == {RInt(-1), Zero, Half, One, Two, RInt(4)}
Charges == {One}
Masses == {Zero, One, Two}
TimeSteps == {One, Half}
IsInteger(a) == a[2] = 1
\* the dictionaries behind the kfn argument: empty, or one update_ndict call
OracleDicts ==
    {EmptyDict} \cup {UpdateNdict(EmptyDict, p[1], p[2], w) :
                         p \in {q \in (1..MaxN) \X (1..MaxN) : q[1] < q[2]},
                         w \in Weights}

Init ==
    /\ pc = "setup"
    /\ err = ""
    /\ ndict = EmptyDict
    /\ kres = <<>>
    /\ lastw = [p \in UnorderedPairs |-> None]
    /\ nupd = 0
    /\ N = 0
    /\ width = Zero /\ height = Zero /\ intDims = FALSE
    /\ charge = Zero /\ mass = Zero /\ time_step = Zero
    /\ pos = <<>> /\ force = <<>> /\ acc = <<>> /\ vel = <<>> /\ xypos = <<>>
    /\ iters = 0 /\ x = 0
    /\ log = <<>>
    /\ frep = <<>> /\ fatt = <<>>

\* --------------------------------------------------------- update_ndict
DoUpdateNdict(un, vn, w) ==
    /\ pc = "setup"
    /\ nupd < MaxUpdates
    /\ ndict' = UpdateNdict(ndict, un, vn, w)
    /\ lastw' = [lastw EXCEPT ![{un, vn}] = w]
    /\ nupd' = nupd + 1
    /\ UNCHANGED <<kres, engineVars>>

\* SpringBox.kfn(ndict, u, v), called by the owner of the dictionary
DoKfn(un, vn) ==
    /\ pc = "setup"
    /\ kres' = <<un, vn, Kfn(ndict, un, vn)>>
    /\ UNCHANGED <<dictVars, engineVars>>

\* ------------------------------------------------- __init__, init_positions
\* S = A / N: Python 2 floors the quotient of two ints
SquareArea(A, n, isInt) ==
    IF isInt THEN RInt(A[1] \div n) ELSE RDiv(A, RInt(n))

\* the loop of init_positions from object k on: the positions it assigns
RECURSIVE InitLoop(_, _, _, _, _, _)
InitLoop(k, n, rad, w, curr_x, curr_y) ==
    IF k > n THEN <<>>
    ELSE LET p == <<RAdd(curr_x, rad), curr_y>>
             cx == RAdd(curr_x, rad)
             wrap == RLess(w, RAdd(cx, rad))
         IN  <<p>> \o InitLoop(k + 1, n, rad, w,
                               IF wrap THEN Zero ELSE cx,
                               IF wrap THEN RAdd(curr_y, RMul(Two, rad)) ELSE curr_y)

\* the exception init_positions raises on these inputs, "" when none
InitRaises(n, w, h, isInt) ==
    IF n = 0 THEN "ZeroDivisionError"
    ELSE IF SquareArea(RMul(w, h), n, isInt)[1] < 0 THEN "ValueError"
    ELSE ""

InitPositions(n, w, h, isInt) ==
    LET S == SquareArea(RMul(w, h), n, isInt)
        rad == RSqrt(S)
    IN  InitLoop(1, n, rad, w, Zero, rad)

\* the inputs whose radius the model can compute exactly
Modelled(n, w, h, isInt) ==
    IF InitRaises(n, w, h, isInt) # "" THEN TRUE
    ELSE HasSqrt(SquareArea(RMul(w, h), n, isInt))

Construct(n, w, h, isInt, q, m, dt, nd) ==
    /\ pc = "setup"
    /\ ndict = EmptyDict
    /\ ndict' = nd
    /\ isInt => IsInteger(w) /\ IsInteger(h)
    /\ Modelled(n, w, h, isInt)
    /\ N' = n /\ width' = w /\ height' = h /\ intDims' = isInt
    /\ charge' = q /\ mass' = m /\ time_step' = dt
    /\ IF InitRaises(n, w, h, isInt) # ""
       THEN /\ pc' = "ctor_error"
            /\ err' = InitRaises(n, w, h, isInt)
            /\ UNCHANGED <<pos, force, acc, vel, frep, fatt>>
       ELSE /\ pc' = "ready"
            /\ err' = ""
            /\ pos' = InitPositions(n, w, h, isInt)
            /\ force' = Zeros(n) /\ acc' = Zeros(n) /\ vel' = Zeros(n)
            /\ frep' = ZeroMatrix(n) /\ fatt' = ZeroMatrix(n)
    /\ UNCHANGED <<kres, lastw, nupd, xypos, callVars, log>>

\* ------------------------------------------------- move_to_equillibrium(R)
\* the loop runs one iteration too many
LoopContinuesOffByOne(done, r) == done <= r
\* `for x in xrange(R)`: another iteration follows after `done` iterations
LoopContinues(done, r) == done < r

CallMoveToEquillibrium(r) ==
    /\ pc = "ready"
    /\ iters' = r
    /\ x' = 0
    /\ pc' = IF LoopContinues(0, r) THEN "clear" ELSE "scale"
    /\ UNCHANGED <<err, kres, dictVars, ctorVars, pos, force, acc, vel, xypos, log,
                   frep, fatt>>

\* ------------------------------------------------------------ clear_forces
Fits(a) == Abs(a[1]) <= MaxMagnitude /\ a[2] <= MaxMagnitude

ClearForces ==
    /\ pc = "clear"
    /\ \A i \in 1..N, ax \in 1..2 : Fits(pos[i][ax]) /\ Fits(vel[i][ax])
    /\ force' = Zeros(N)
    /\ pc' = "repulse"
    /\ log' = Append(log, "clear_forces")
    /\ UNCHANGED <<err, kres, dictVars, ctorVars, pos, acc, vel, xypos, callVars,
                   frep, fatt>>

\* ------------------------------------------- the pairwise force loops
Kc == One      \* the Coulomb constant, in the model's unit of force

\* the pairs (i, j), i < j, in the order the two nested xrange loops visit them
RECURSIVE PairsFrom(_, _, _)
PairsFrom(i, j, n) ==
    IF i > n THEN <<>>
    ELSE IF j > n THEN PairsFrom(i + 1, i + 2, n)
    ELSE <<(<<i, j>>)>> \o PairsFrom(i, j + 1, n)
Pairs(n) == PairsFrom(1, 2, n)

\* f with amount a added to object i's component on axis ax
AddTo(f, i, ax, a) == [f EXCEPT ![i][ax] = RAdd(@, a)]
\* contribution matrix c with c[i][j] on axis ax set to a
Record(c, i, j, ax, a) == [c EXCEPT ![i][j][ax] = a]

\* `if dx != 0` without the test
RepelAppliesAlways(d) == TRUE
\* compute_repulsive_force: `if dx != 0` / `if dy != 0`
RepelApplies(d) == d # Zero

\* sign = dx / math.fabs(dx)
Sign(d) == RDiv(d, RAbs(d))
\* the divisions of one axis of compute_repulsive_force divide by zero
RepelDividesByZero(d) == RAbs(d) = Zero \/ RMul(d, d) = Zero

\* v.force[0] += sign * Kc * v.charge * u.charge / dx**2
RepulsiveOnV(d, qv, qu) ==
    RDiv(RMul(RMul(RMul(Sign(d), Kc), qv), qu), RMul(d, d))
\* the update of u's force with the (-1) factor lost
RepulsiveOnUSameSign(d, qv, qu) ==
    RDiv(RMul(RMul(RMul(Sign(d), Kc), qv), qu), RMul(d, d))
\* u.force[0] += (-1) * sign * Kc * v.charge * u.charge / dx**2
RepulsiveOnU(d, qv, qu) ==
    RDiv(RMul(RMul(RMul(RMul(MinusOne, Sign(d)), Kc), qv), qu), RMul(d, d))

\* one axis of one pair of compute_repulsive_force, on the loop state
\* st = [force, contrib, raised]
RepelAxis(st, p, i, j, ax, q) ==
    LET d == RSub(p[i][ax], p[j][ax])
    IN  IF st.raised \/ ~RepelApplies(d) THEN st
        ELSE IF RepelDividesByZero(d) THEN [st EXCEPT !.raised = TRUE]
        ELSE [force |-> AddTo(AddTo(st.force, i, ax, RepulsiveOnV(d, q, q)),
                              j, ax, RepulsiveOnU(d, q, q)),
              contrib |-> Record(Record(st.contrib, i, j, ax, RepulsiveOnV(d, q, q)),
                                 j, i, ax, RepulsiveOnU(d, q, q)),
              raised |-> FALSE]

RECURSIVE RepelLoop(_, _, _, _, _)
RepelLoop(st, p, ps, k, q) ==
    IF k > Len(ps) \/ st.raised THEN st
    ELSE RepelLoop(RepelAxis(RepelAxis(st, p, ps[k][1], ps[k][2], 1, q),
                             p, ps[k][1], ps[k][2], 2, q),
                   p, ps, k + 1, q)

ComputeRepulsiveForce ==
    /\ pc = "repulse"
    /\ LET st == RepelLoop([force |-> force, contrib |-> ZeroMatrix(N),
                            raised |-> FALSE], pos, Pairs(N), 1, charge)
       IN  /\ force' = st.force
           /\ frep' = st.contrib
           /\ pc' = IF st.raised THEN "error" ELSE "attract"
           /\ err' = IF st.raised THEN "ZeroDivisionError" ELSE err
    /\ log' = Append(log, "compute_repulsive_force")
    /\ UNCHANGED <<kres, dictVars, ctorVars, pos, acc, vel, xypos, callVars, fatt>>

\* v.force[0] += (-1) * dx * k
AttractiveOnV(d, k) == RMul(RMul(MinusOne, d), k)
\* u.force[0] += dx * k
AttractiveOnU(d, k) == RMul(d, k)

\* one axis of one pair of compute_attractive_force
AttractAxis(st, p, i, j, ax, k) ==
    LET d == RSub(p[i][ax], p[j][ax])
    IN  IF d = Zero THEN st
        ELSE [force |-> AddTo(AddTo(st.force, i, ax, AttractiveOnV(d, k)),
                              j, ax, AttractiveOnU(d, k)),
              contrib |-> Record(Record(st.contrib, i, j, ax, AttractiveOnV(d, k)),
                                 j, i, ax, AttractiveOnU(d, k))]

RECURSIVE AttractLoop(_, _, _, _, _)
AttractLoop(st, p, ps, n, nd) ==
    IF n > Len(ps) THEN st
    ELSE LET i == ps[n][1]
             j == ps[n][2]
             k == Kfn(nd, i, j)        \* k = self.kfn(v, u)
         IN  IF k = None
             THEN AttractLoop(st, p, ps, n + 1, nd)
             ELSE AttractLoop(AttractAxis(AttractAxis(st, p, i, j, 1, k),
                                          p, i, j, 2, k),
                              p, ps, n + 1, nd)

ComputeAttractiveForce ==
    /\ pc = "attract"
    /\ LET st == AttractLoop([force |-> force, contrib |-> ZeroMatrix(N)],
                             pos, Pairs(N), 1, ndict)
       IN  /\ force' = st.force
           /\ fatt' = st.contrib
    /\ pc' = "move"
    /\ log' = Append(log, "compute_attractive_force")
    /\ UNCHANGED <<err, kres, dictVars, ctorVars, pos, acc, vel, xypos, callVars, frep>>

\* -------------------------------------------------------------------- move
\* o.acc = map(lambda x: x / o.mass, o.force)
MoveAcc(f, m) == RDiv(f, m)
\* o.pos = map(lambda x, y: x * time_step + y / 2 * time_step ** 2, o.vel, o.acc)
\* (p is the position before the step)
MovePos(p, v, a, dt) == RAdd(RMul(v, dt), RMul(RDiv(a, Two), RMul(dt, dt)))
\* o.vel = map(lambda x, y: x + y * time_step, o.vel, o.acc)
MoveVel(v, a, dt) == RAdd(v, RMul(a, dt))

Move ==
    /\ pc = "move"
    /\ log' = Append(log, "move")
    /\ IF mass = Zero
       THEN \* x / o.mass raises on the first object
            /\ pc' = "error"
            /\ err' = "ZeroDivisionError"
            /\ UNCHANGED <<acc, pos, vel, x>>
       ELSE /\ acc' = [i \in 1..N |-> [ax \in 1..2 |-> MoveAcc(force[i][ax], mass)]]
            /\ pos' = [i \in 1..N |-> [ax \in 1..2 |->
                          MovePos(pos[i][ax], vel[i][ax], acc'[i][ax], time_step)]]
            /\ vel' = [i \in 1..N |-> [ax \in 1..2 |->
                          MoveVel(vel[i][ax], acc'[i][ax], time_step)]]
            /\ x' = x + 1
            /\ pc' = IF LoopContinues(x + 1, iters) THEN "clear" ELSE "scale"
            /\ err' = err
    /\ UNCHANGED <<kres, dictVars, ctorVars, force, xypos, iters, frep, fatt>>

\* ------------------------------------------------------------ scale_to_map
RMinOf(S) == CHOOSE a \in S : \A b \in S : RLeq(a, b)
RMaxOf(S) == CHOOSE a \in S : \A b \in S : RLeq(b, a)
Coords(p, ax) == {p[i][ax] : i \in DOMAIN p}

\* lenx = maxx - minx + 1
BoxLen(mx, mn) == RAdd(RSub(mx, mn), One)
\* the translation to the bounding-box origin left out
ScaleCoordNoShift(c, mn, scale) == RMul(c, scale)
\* o.pos[0] = (o.pos[0] - minx) * scalex
ScaleCoord(c, mn, scale) == RMul(RSub(c, mn), scale)

ScaleToMap ==
    /\ pc = "scale"
    /\ LET mn == [ax \in 1..2 |-> RMinOf(Coords(pos, ax))]
           mx == [ax \in 1..2 |-> RMaxOf(Coords(pos, ax))]
           size == <<width, height>>
           scale == [ax \in 1..2 |-> RDiv(size[ax], BoxLen(mx[ax], mn[ax]))]
       IN  pos' = [i \in 1..N |-> [ax \in 1..2 |->
                      ScaleCoord(pos[i][ax], mn[ax], scale[ax])]]
    /\ xypos' = pos'
    /\ pc' = "done"
    /\ log' = Append(log, "scale_to_map")
    /\ UNCHANGED <<err, kres, dictVars, ctorVars, force, acc, vel, callVars, frep, fatt>>

\* ------------------------------------------------------------ specification
\* the engine: construction, then one call of move_to_equillibrium
NewSpringBox ==
    /\ pc = "setup"
    /\ \E n \in 0..MaxN, w \in CanvasSizes, h \in CanvasSizes, isInt \in BOOLEAN,
          q \in Charges, m \in Masses, dt \in TimeSteps, nd \in OracleDicts :
            Construct(n, w, h, isInt, q, m, dt, nd)

Next ==
    \/ NewSpringBox
    \/ \E r \in 0..MaxIter : CallMoveToEquillibrium(r)
    \/ ClearForces
    \/ ComputeRepulsiveForce
    \/ ComputeAttractiveForce
    \/ Move
    \/ ScaleToMap

Spec == Init /\ [][Next]_vars

\* the edge-weight dictionary on its own: update_ndict and kfn calls
DictNext ==
    \/ \E un \in Names, vn \in Names, w \in Weights : DoUpdateNdict(un, vn, w)
    \/ \E un \in Names, vn \in Names : DoKfn(un, vn)

DictSpec == Init /\ [][DictNext]_vars

\* ------------------------------------------------------------------ claims
Positive(a) == RLess(Zero, a)

\* C1.  Every integration step sets, for every node and axis, acceleration =
\* force / mass, position = previous position + velocity * time_step +
\* 0.5 * acceleration * time_step^2 (velocity from before the step), and
\* velocity = previous velocity + acceleration * time_step.
C1_MoveIntegrates ==
    [][(pc = "move" /\ pc' # "error") =>
        \A i \in 1..N, ax \in 1..2 :
           /\ acc'[i][ax] = RDiv(force[i][ax], mass)
           /\ pos'[i][ax] = RAdd(pos[i][ax],
                                 RAdd(RMul(vel[i][ax], time_step),
                                      RMul(RMul(Half, acc'[i][ax]),
                                           RMul(time_step, time_step))))
           /\ vel'[i][ax] = RAdd(vel[i][ax], RMul(acc'[i][ax], time_step))]_vars

\* C2.  After move_to_equillibrium returns, on a canvas of positive width and
\* height every node has 0 <= x < width and 0 <= y < height.
InCanvas(p) ==
    /\ RLeq(Zero, p[1]) /\ RLess(p[1], width)
    /\ RLeq(Zero, p[2]) /\ RLess(p[2], height)
C2_CanvasContainment ==
    (pc = "done" /\ Positive(width) /\ Positive(height)) =>
        \A i \in 1..N : InCanvas(pos[i]) /\ xypos[i] = pos[i]
C2_Witness ==
    /\ pc = "done" /\ Positive(width) /\ Positive(height)
    /\ N >= 2 /\ iters >= 2
    /\ \E i \in 1..N : Positive(pos[i][1])
    /\ \E i \in 1..N : Positive(pos[i][2])

\* C3.  A SpringBox with mass = 0 is rejected by the constructor: with mass = 0
\* the run ends in the constructor's error and never reaches an iteration
\* (the division by mass in move is never executed with mass = 0).
C3_ZeroMassRejected ==
    (pc # "setup" /\ mass = Zero) => pc = "ctor_error"

\* C4.  A SpringBox with width <= 0, or height <= 0, or no nodes fails at
\* construction: the constructor raises and no node is given a position.
Degenerate == RLeq(width, Zero) \/ RLeq(height, Zero) \/ N = 0
C4_DegenerateCanvasRejected ==
    (pc # "setup" /\ Degenerate) => (pc = "ctor_error" /\ pos = <<>>)

\* C5.  Right after construction, for N > 1 and width * height > 0, no two
\* distinct nodes have the same (x, y) position (stated here for the canvases
\* of positive width and height among them).
C5_NoInitialOverlap ==
    (pc = "ready" /\ N > 1 /\ Positive(width) /\ Positive(height)) =>
        \A i \in 1..N, j \in 1..N : i # j => pos[i] # pos[j]

\* C6.  What a force phase adds to u because of v is the negation of what it
\* adds to v because of u, on each axis, for repulsion and for attraction;
\* after clear_forces and both force phases the forces sum to zero per axis.
RECURSIVE SumForce(_, _, _)
SumForce(f, ax, k) == IF k = 0 THEN Zero ELSE RAdd(f[k][ax], SumForce(f, ax, k - 1))
C6_PairwiseForcesOpposite ==
    /\ \A i \in DOMAIN frep, j \in DOMAIN frep, ax \in 1..2 :
          /\ frep[i][j][ax] = RNeg(frep[j][i][ax])
          /\ fatt[i][j][ax] = RNeg(fatt[j][i][ax])
    /\ pc = "move" => \A ax \in 1..2 : SumForce(force, ax, N) = Zero
C6_Witness ==
    /\ pc = "move"
    /\ \E i \in 1..N, j \in 1..N, ax \in 1..2 :
          /\ i # j
          /\ frep[i][j][ax] # Zero
          /\ fatt[i][j][ax] # Zero
          /\ force[i][ax] # Zero

\* C7.  move_to_equillibrium(R) runs exactly R iterations, each one
\* clear_forces, compute_repulsive_force, compute_attractive_force, move in
\* that order, then scale_to_map once, after the last iteration, and returns.
Iteration == <<"clear_forces", "compute_repulsive_force",
               "compute_attractive_force", "move">>
RECURSIVE Expected(_)
Expected(r) == IF r = 0 THEN <<"scale_to_map">> ELSE Iteration \o Expected(r - 1)
IsPrefix(s, t) == Len(s) <= Len(t) /\ SubSeq(t, 1, Len(s)) = s
C7_PhaseOrder ==
    /\ IsPrefix(log, Expected(iters))
    /\ pc = "done" => (log = Expected(iters) /\ x = iters)
    /\ pc \in {"clear", "repulse", "attract", "move"} => x < iters
C7_Witness ==
    pc = "done" /\ iters >= 2 /\ N >= 2 /\ Len(log) = 4 * iters + 1

\* C8.  In compute_repulsive_force a pair of distinct nodes whose coordinates
\* are equal on an axis changes neither node's force on that axis, and the
\* phase never divides by zero, in every state reached during the steps.
SameOnAxis(i, j, ax) == pos[i][ax] = pos[j][ax]
C8_ZeroDifferenceSkipped ==
    /\ pc \in {"attract", "move"} =>
          \A i \in 1..N, j \in 1..N, ax \in 1..2 :
             (i # j /\ SameOnAxis(i, j, ax)) =>
                 /\ frep[i][j][ax] = Zero
                 /\ N = 2 /\ pc = "attract" => force[i][ax] = Zero
    /\ pc = "error" => log[Len(log)] # "compute_repulsive_force"
C8_Witness ==
    /\ pc = "attract" /\ x >= 1
    /\ \E i \in 1..N, j \in 1..N :
          i # j /\ SameOnAxis(i, j, 1) /\ SameOnAxis(i, j, 2)

\* C9.  The initial grid lays nodes left to right, a node either R to the right
\* of its predecessor or first in a new row 2R lower, and on a canvas of
\* positive width and height every initial position has 0 <= x <= width and
\* 0 <= y <= height.
C9_InitialGridInsideCanvas ==
    (pc = "ready" /\ N >= 1 /\ Positive(width) /\ Positive(height)) =>
        LET rad == pos[1][1]
        IN  /\ \A i \in 1..(N - 1) :
                  \/ pos[i + 1] = <<RAdd(pos[i][1], rad), pos[i][2]>>
                  \/ pos[i + 1] = <<rad, RAdd(pos[i][2], RMul(Two, rad))>>
            /\ \A i \in 1..N :
                  /\ RLeq(Zero, pos[i][1]) /\ RLeq(pos[i][1], width)
                  /\ RLeq(Zero, pos[i][2]) /\ RLeq(pos[i][2], height)

\* C10.  After any sequence of update_ndict calls on an empty dictionary, kfn
\* is symmetric and returns None exactly for the unordered pairs never
\* written and otherwise the w of the pair's last call; kfn leaves the
\* dictionary as it is.
C10_LastWriteWins ==
    \A a \in Names, b \in Names :
       /\ Kfn(ndict, a, b) = Kfn(ndict, b, a)
       /\ Kfn(ndict, a, b) = lastw[{a, b}]
C10_KfnStep ==
    kres' # kres => (ndict' = ndict /\ kres'[3] = lastw[{kres'[1], kres'[2]}])
C10_KfnSymmetricLastWrite ==
    []C10_LastWriteWins /\ [][C10_KfnStep]_vars
C10_Witness ==
    /\ nupd >= 2
    /\ Cardinality({p \in UnorderedPairs : lastw[p] # None}) = 1
    /\ kres # <<>> /\ kres[1] # kres[2] /\ kres[3] = Two
    /\ Kfn(ndict, kres[2], kres[1]) = Two

=============================================================================
